---------------------------- MODULE Spec2Model ----------------------------
(***************************************************************************)
(* A model of the sego word segmenter (src/segmenter.go): the UTF-8 atom   *)
(* tokenizer splitTextToWords, the dictionary loader LoadDictionary and    *)
(* the Viterbi segmenter segmentWords.                                     *)
(*                                                                         *)
(* Bytes are naturals 0..255, a Text (atom) is a sequence of bytes, a      *)
(* token's text is a sequence of atoms.  Token objects live in a heap      *)
(* (a sequence of records); a *Token is an index into the heap.            *)
(* Distances (float32 in the code) are kept in fixed point, in units of    *)
(* 1/1000 bit: log2 is tabulated to three decimals.                        *)
(***************************************************************************)
EXTENDS Integers, Sequences, FiniteSets, TLC

VARIABLES
    pc,                \* position of the program: LoadDictionary's phases, then "ready"
    heap,              \* every Token object allocated so far
    dict,              \* seg.dict: tokens (pointers), totalFrequency, maxTokenLength
    logTotalFrequency, \* LoadDictionary's local of that name
    expandIdx,         \* the index i of LoadDictionary's second loop over dict.tokens
    rangeLen,          \* len(dict.tokens) when that range loop started
    linesRead,         \* number of dictionary lines read so far
    addLog,            \* history: the addToken calls made so far, in order
    lineGroups,        \* history: per line read, the Token objects of its valid entries
    query,             \* the last call of InternalSegment: bytes and searchMode
    result,            \* what that call computed
    splitIn,           \* the argument of a direct splitTextToWords call
    splitOut           \* and the atoms it returned

vars == <<pc, heap, dict, logTotalFrequency, expandIdx, rangeLen, linesRead,
          addLog, lineGroups, query, result, splitIn, splitOut>>

-----------------------------------------------------------------------------
(* Bounds of the model *)

\* dictionary lines LoadDictionary reads in one run
MaxLines == 2
\* bytes of an input handed to InternalSegment
MaxInputLen == 4
\* bytes of an input handed directly to splitTextToWords
MaxTextLen == 5

-----------------------------------------------------------------------------
(* Program constants *)

minTokenFrequency == 2
wordAlpha == 0
wordNumber == 1
wordOther == 2

-----------------------------------------------------------------------------
(* Generic helpers *)

Range(s) == {s[i] : i \in 1..Len(s)}

minInt(a, b) == IF a > b THEN b ELSE a

maxInt(a, b) == IF a > b THEN a ELSE b

\* all byte sequences of length 0..n over the byte set B
SeqsUpTo(B, n) == UNION {[1..k -> B] : k \in 0..n}

RECURSIVE Flatten(_)
\* concatenation of a sequence of sequences
Flatten(ss) == IF ss = <<>> THEN <<>> ELSE Head(ss) \o Flatten(Tail(ss))

RECURSIVE SumSeq(_)
SumSeq(s) == IF s = <<>> THEN 0 ELSE Head(s) + SumSeq(Tail(s))

-----------------------------------------------------------------------------
(* unicode/utf8 and unicode, as far as splitTextToWords uses them *)

IsCont(b) == b >= 128 /\ b <= 191

\* utf8.DecodeRune(text[cur:]) (cur is 1-based): the rune and its size;
\* an invalid or truncated encoding decodes to RuneError (65533) of size 1
DecodeRune(text, cur) ==
    LET n  == Len(text)
        b0 == text[cur]
        RuneErr == [r |-> 65533, size |-> 1]
    IN  IF b0 < 128 THEN [r |-> b0, size |-> 1]
        ELSE IF b0 >= 194 /\ b0 <= 223
        THEN IF cur + 1 <= n /\ IsCont(text[cur+1])
             THEN [r |-> (b0 - 192) * 64 + (text[cur+1] - 128), size |-> 2]
             ELSE RuneErr
        ELSE IF b0 >= 224 /\ b0 <= 239
        THEN IF /\ cur + 2 <= n
                /\ IsCont(text[cur+1]) /\ IsCont(text[cur+2])
                /\ (b0 = 224 => text[cur+1] >= 160)
                /\ (b0 = 237 => text[cur+1] <= 159)
             THEN [r |-> (b0 - 224) * 4096 + (text[cur+1] - 128) * 64
                         + (text[cur+2] - 128), size |-> 3]
             ELSE RuneErr
        ELSE IF b0 >= 240 /\ b0 <= 244
        THEN IF /\ cur + 3 <= n
                /\ IsCont(text[cur+1]) /\ IsCont(text[cur+2]) /\ IsCont(text[cur+3])
                /\ (b0 = 240 => text[cur+1] >= 144)
                /\ (b0 = 244 => text[cur+1] <= 143)
             THEN [r |-> (b0 - 240) * 262144 + (text[cur+1] - 128) * 4096
                         + (text[cur+2] - 128) * 64 + (text[cur+3] - 128), size |-> 4]
             ELSE RuneErr
        ELSE RuneErr

\* unicode.IsLetter on U+0000..U+00FF (the runes of at most 2 bytes that the
\* bounded inputs of this model can encode)
IsLetter(r) ==
    \/ r \in 65..90 \/ r \in 97..122
    \/ r \in {170, 181, 186}
    \/ r \in 192..214 \/ r \in 216..246 \/ r \in 248..255

\* unicode.IsNumber on U+0000..U+00FF
IsNumber(r) == r \in 48..57 \/ r \in {178, 179, 185, 188, 189, 190}

-----------------------------------------------------------------------------
(* splitTextToWords and toLower *)

toLower(text) ==
    [i \in 1..Len(text) |->
        IF text[i] >= 65 /\ text[i] <= 90 THEN text[i] - 65 + 97 ELSE text[i]]

\* the switch of splitTextToWords
WordType(d) ==
    IF d.size <= 2 /\ IsLetter(d.r) THEN wordAlpha
    ELSE IF d.size <= 2 /\ IsNumber(d.r) THEN wordNumber
    ELSE wordOther

\* splitHere without its second test: a boundary only where the type changes
splitHereTypeChangeOnly(curWordType, preWordType) == curWordType # preWordType

\* the test that closes the word scanned so far
splitHere(curWordType, preWordType) ==
    curWordType # preWordType \/ curWordType = wordOther

\* the word text[preWordStart:current] (0-based, half open) appended to output,
\* lowercased when it is an alpha word, unless it is a single space
emitWord(output, text, preWordStart, current, preWordType) ==
    LET raw  == SubSeq(text, preWordStart + 1, current)
        word == IF preWordType = wordAlpha THEN toLower(raw) ELSE raw
    IN  IF word # <<32>> THEN Append(output, word) ELSE output

RECURSIVE splitLoop(_, _, _, _, _)
\* the scanning loop and the boundary case after it; current and preWordStart
\* are the code's 0-based offsets
splitLoop(text, current, preWordType, preWordStart, output) ==
    IF current < Len(text)
    THEN LET d == DecodeRune(text, current + 1)
             curWordType == WordType(d)
         IN  IF splitHere(curWordType, preWordType)
             THEN splitLoop(text, current + d.size, curWordType, current,
                            IF current # 0
                            THEN emitWord(output, text, preWordStart, current, preWordType)
                            ELSE output)
             ELSE splitLoop(text, current + d.size, preWordType, preWordStart, output)
    ELSE IF current # 0
         THEN emitWord(output, text, preWordStart, current, preWordType)
         ELSE output

splitTextToWords(text) == splitLoop(text, 0, wordAlpha, 0, <<>>)

textSliceByteLength(text) == SumSeq([i \in 1..Len(text) |-> Len(text[i])])

textSliceToBytes(text) == Flatten(text)

-----------------------------------------------------------------------------
(* Tokens, segments and the dictionary *)

\* a freshly built Token object
MkToken(text, frequency, pos) ==
    [text |-> text, frequency |-> frequency, pos |-> pos, distance |-> 0,
     segments |-> <<>>, synonyms |-> <<>>]

\* What a *Token held by a jumper or a Segment shows of its object: the
\* pointer (0 for a Token built inside segmentWords, -1 for nil) and the
\* fields that no longer change once distances are assigned.
NilToken == [ptr |-> -1, text |-> <<>>, frequency |-> 0, distance |-> 0, pos |-> ""]

TokenAt(h, p) ==
    [ptr |-> p, text |-> h[p].text, frequency |-> h[p].frequency,
     distance |-> h[p].distance, pos |-> h[p].pos]

NewDictionary == [tokens |-> <<>>, totalFrequency |-> 0, maxTokenLength |-> 0]

NumTokens(d) == Len(d.tokens)

\* the dictionary key of a token: its atoms' bytes concatenated
Key(text) == textSliceToBytes(text)

\* addToken as it would be if the last writer won: a later token with a stored
\* key replaces the stored one
addTokenLastWins(d, h, p) ==
    IF \E i \in 1..Len(d.tokens) : Key(h[d.tokens[i]].text) = Key(h[p].text)
    THEN LET i == CHOOSE i \in 1..Len(d.tokens) :
                      Key(h[d.tokens[i]].text) = Key(h[p].text)
         IN  [d EXCEPT !.tokens[i] = p,
                       !.totalFrequency = @ + h[p].frequency]
    ELSE [tokens |-> Append(d.tokens, p),
          totalFrequency |-> d.totalFrequency + h[p].frequency,
          maxTokenLength |-> maxInt(d.maxTokenLength, Len(h[p].text))]

\* Dictionary.addToken: a no-op when the key is stored already
addToken(d, h, p) ==
    IF \E q \in Range(d.tokens) : Key(h[q].text) = Key(h[p].text)
    THEN d
    ELSE [tokens |-> Append(d.tokens, p),
          totalFrequency |-> d.totalFrequency + h[p].frequency,
          maxTokenLength |-> maxInt(d.maxTokenLength, Len(h[p].text))]

RECURSIVE lookupFrom(_, _, _, _)
lookupFrom(d, h, words, k) ==
    IF k > Len(words) THEN <<>>
    ELSE LET hit == {q \in Range(d.tokens) : h[q].text = SubSeq(words, 1, k)}
         IN  (IF hit = {} THEN <<>> ELSE <<TokenAt(h, CHOOSE q \in hit : TRUE)>>)
             \o lookupFrom(d, h, words, k + 1)

\* Dictionary.lookupTokens: the stored tokens whose atoms are a prefix of
\* words, by increasing number of atoms
lookupTokens(d, h, words) == lookupFrom(d, h, words, 1)

\* round(1000 * log2(n)) for n = 1..64
Log2Table ==
    << 0, 1000, 1585, 2000, 2322, 2585, 2807, 3000, 3170, 3322, 3459, 3585,
       3700, 3807, 3907, 4000, 4087, 4170, 4248, 4322, 4392, 4459, 4524, 4585,
       4644, 4700, 4755, 4807, 4858, 4907, 4954, 5000, 5044, 5087, 5129, 5170,
       5209, 5248, 5285, 5322, 5358, 5392, 5426, 5459, 5492, 5524, 5555, 5585,
       5615, 5644, 5672, 5700, 5728, 5755, 5781, 5807, 5833, 5858, 5883, 5907,
       5931, 5954, 5977, 6000 >>

\* float32(math.Log2(float64(n))) in 1/1000 bit; log2(0) is -Inf
Log2(n) == IF n = 0 THEN -1000 * 1000 * 1000 ELSE Log2Table[n]

-----------------------------------------------------------------------------
(* segmentWords *)

\* updateJumper with >= for >: an equal distance replaces the jumper too
updateJumperOnTie(jumper, baseDistance, token) ==
    LET newDistance == baseDistance + token.distance
    IN  IF jumper.minDistance = 0 \/ jumper.minDistance >= newDistance
        THEN [minDistance |-> newDistance, token |-> token]
        ELSE jumper

updateJumper(jumper, baseDistance, token) ==
    LET newDistance == baseDistance + token.distance
    IN  IF jumper.minDistance = 0 \/ jumper.minDistance > newDistance
        THEN [minDistance |-> newDistance, token |-> token]
        ELSE jumper

\* the pseudo token of one atom that segmentWords builds
fallbackToken(word) ==
    [ptr |-> 0, text |-> <<word>>, frequency |-> 1, distance |-> 32 * 1000, pos |-> "x"]

\* needFallback without its second test: a pseudo token only where nothing matched
needFallbackNoMatchOnly(tokens) == Len(tokens) = 0

\* whether the current atom gets the pseudo token
needFallback(tokens) == Len(tokens) = 0 \/ Len(tokens[1].text) > 1

RECURSIVE relaxAll(_, _, _)
\* updateJumper applied to the candidates in order; relaxed[location] records
\* the candidates relaxed at each location with their new distance
relaxAll(st, baseDistance, cands) ==
    IF cands = <<>> THEN st
    ELSE LET c == Head(cands)
         IN  relaxAll(
                 [jumpers |-> [st.jumpers EXCEPT ![c.location] =
                                   updateJumper(@, baseDistance, c.token)],
                  relaxed |-> [st.relaxed EXCEPT ![c.location] =
                                   Append(@, [newDistance |-> baseDistance + c.token.distance,
                                              token |-> c.token])]],
                 baseDistance, Tail(cands))

\* one iteration of the forward loop; current is 1-based
forwardStep(d, h, text, searchMode, st, current) ==
    LET n == Len(text)
        baseDistance == IF current = 1 THEN 0 ELSE st.jumpers[current - 1].minDistance
        tokens == lookupTokens(d, h,
                      SubSeq(text, current, minInt(current + d.maxTokenLength - 1, n)))
        cand(i) == [location |-> current + Len(tokens[i].text) - 1, token |-> tokens[i]]
        keep(c) == ~searchMode \/ current # 1 \/ c.location # n
        matched == SelectSeq([i \in 1..Len(tokens) |-> cand(i)], keep)
        pseudo == IF needFallback(tokens)
                  THEN <<[location |-> current, token |-> fallbackToken(text[current])]>>
                  ELSE <<>>
    IN  relaxAll(st, baseDistance, matched \o pseudo)

RECURSIVE forwardPass(_, _, _, _, _, _)
forwardPass(d, h, text, searchMode, st, current) ==
    IF current > Len(text) THEN st
    ELSE forwardPass(d, h, text, searchMode,
                     forwardStep(d, h, text, searchMode, st, current), current + 1)

RECURSIVE backScan(_, _, _)
\* the two backward scans (they walk the same jumpers): the tokens from left
\* to right, or what goes wrong: a nil token dereferenced ("nil"), a step to
\* an index below the code's -1 ("below"), or a walk that never ends ("loop")
backScan(jumpers, index, fuel) ==
    IF index < 0 THEN [err |-> "below", tokens |-> <<>>]
    ELSE IF index = 0 THEN [err |-> "none", tokens |-> <<>>]
    ELSE IF jumpers[index].token.ptr = -1 THEN [err |-> "nil", tokens |-> <<>>]
    ELSE IF fuel = 0 THEN [err |-> "loop", tokens |-> <<>>]
    ELSE LET token == jumpers[index].token
             location == index - Len(token.text) + 1
             rest == backScan(jumpers, location - 1, fuel - 1)
         IN  [err |-> rest.err, tokens |-> Append(rest.tokens, token)]

RECURSIVE bytePositions(_, _)
\* start and end of each output segment
bytePositions(tokens, bytePosition) ==
    IF tokens = <<>> THEN <<>>
    ELSE LET end == bytePosition + textSliceByteLength(Head(tokens).text)
         IN  <<[start |-> bytePosition, end |-> end, token |-> Head(tokens)]>>
             \o bytePositions(Tail(tokens), end)

\* filterStopWords without its test: nothing is dropped
filterStopWordsKeepAll(outputSegments) == outputSegments

filterStopWords(outputSegments) ==
    SelectSeq(outputSegments, LAMBDA s : s.token.pos # "__STOP__")

EmptyRun == [jumpers |-> <<>>, relaxed |-> <<>>, err |-> "none",
             outputSegments |-> <<>>, segments |-> <<>>]

segmentWords(d, h, text, searchMode) ==
    IF searchMode /\ Len(text) = 1 THEN EmptyRun
    ELSE LET st == forwardPass(d, h, text, searchMode,
                       [jumpers |-> [i \in 1..Len(text) |->
                                        [minDistance |-> 0, token |-> NilToken]],
                        relaxed |-> [i \in 1..Len(text) |-> <<>>]], 1)
             scan == backScan(st.jumpers, Len(text), Len(text))
             outputSegments == IF scan.err = "none"
                               THEN bytePositions(scan.tokens, 0) ELSE <<>>
         IN  [jumpers |-> st.jumpers, relaxed |-> st.relaxed, err |-> scan.err,
              outputSegments |-> outputSegments,
              segments |-> filterStopWords(outputSegments)]

\* internalSegment: the run of segmentWords and the atoms it was given
internalSegment(d, h, bytes, searchMode) ==
    IF Len(bytes) = 0
    THEN [atoms |-> <<>>, called |-> FALSE, run |-> EmptyRun]
    ELSE LET text == splitTextToWords(bytes)
         IN  [atoms |-> text, called |-> TRUE, run |-> segmentWords(d, h, text, searchMode)]

-----------------------------------------------------------------------------
(* LoadDictionary *)

\* One "|"-separated piece of a dictionary line after it is cut at spaces:
\* enough says whether it has the 2 (or, with a part of speech, 3) elements the
\* format needs, numeric whether strconv.Atoi accepts its frequency element.
Piece(text, frequency, pos) ==
    [enough |-> TRUE, numeric |-> TRUE, text |-> text, frequency |-> frequency, pos |-> pos]

ShortPiece ==
    [enough |-> FALSE, numeric |-> FALSE, text |-> <<>>, frequency |-> 0, pos |-> ""]

\* The dictionary lines a file may hold in this model (bytes: a = 97,
\* 1 = 49, ! = 33):
\*   a 4 n            a1 4|1a 4            a1 4            1 2 __STOP__
\*   a1a 4|!a 4       ! 4|1 4              a 2 v|! 1|x|1 4
DictLines ==
    { <<Piece(<<97>>, 4, "n")>>,
      <<Piece(<<97, 49>>, 4, ""), Piece(<<49, 97>>, 4, "")>>,
      <<Piece(<<97, 49>>, 4, "")>>,
      <<Piece(<<49>>, 2, "__STOP__")>>,
      <<Piece(<<97, 49, 97>>, 4, ""), Piece(<<33, 97>>, 4, "")>>,
      <<Piece(<<33>>, 4, ""), Piece(<<49>>, 4, "")>>,
      <<Piece(<<97>>, 2, "v"), Piece(<<33>>, 1, ""), ShortPiece, Piece(<<49>>, 4, "")>> }

RECURSIVE validEntries(_)
\* the pieces of a line that become tokens: a malformed piece ends the line
\* (break), an unparsable or too small frequency skips the piece (continue)
validEntries(pieces) ==
    IF pieces = <<>> THEN <<>>
    ELSE LET piece == Head(pieces)
         IN  IF ~piece.enough \/ piece.text = <<>> THEN <<>>
             ELSE IF ~piece.numeric \/ piece.frequency < minTokenFrequency
             THEN validEntries(Tail(pieces))
             ELSE <<piece>> \o validEntries(Tail(pieces))

\* synonyms[:i] followed by synonyms[i+1:], for the i-th (1-based) of ptrs
peersOf(ptrs, i) ==
    [j \in 1..(Len(ptrs) - 1) |-> IF j < i THEN ptrs[j] ELSE ptrs[j + 1]]

\* the Token objects one line allocates, each with its peers as synonyms
lineTokens(base, entries) ==
    LET ptrs == [i \in 1..Len(entries) |-> base + i]
    IN  [i \in 1..Len(entries) |->
            [MkToken(splitTextToWords(entries[i].text), entries[i].frequency,
                     entries[i].pos) EXCEPT !.synonyms = peersOf(ptrs, i)]]

RECURSIVE addAll(_, _, _)
\* addToken for each pointer in order
addAll(d, h, ptrs) ==
    IF ptrs = <<>> THEN d ELSE addAll(addToken(d, h, Head(ptrs)), h, Tail(ptrs))

\* what one addToken call is remembered by
LogEntry(h, p) ==
    [key |-> Key(h[p].text), atoms |-> Len(h[p].text),
     frequency |-> h[p].frequency, pos |-> h[p].pos]

\* cartesianToken without the distance field: it stays 0
cartesianTokenNoDistance(a, more) == MkToken(a.text \o more, a.frequency, a.pos)

\* the Token the Cartesian product builds from the partial token a
cartesianToken(a, more) ==
    [MkToken(a.text \o more, a.frequency, a.pos) EXCEPT !.distance = a.distance]

\* segment.token.synonyms
synonymsOf(h, token) == IF token.ptr > 0 THEN h[token.ptr].synonyms ELSE <<>>

RECURSIVE cartesian(_, _, _)
\* the product over the sub-segments in order, from the partial tokens synonyms
cartesian(h, synonyms, segments) ==
    IF segments = <<>> THEN synonyms
    ELSE LET segment == Head(segments)
             syn == synonymsOf(h, segment.token)
             extend(a) ==
                 IF Len(syn) > 0
                 THEN [k \in 1..Len(syn) |-> cartesianToken(a, h[syn[k]].text)]
                 ELSE <<cartesianToken(a, segment.token.text)>>
         IN  cartesian(h, Flatten([i \in 1..Len(synonyms) |-> extend(synonyms[i])]),
                       Tail(segments))

RECURSIVE addSynonyms(_, _, _, _, _)
\* the loop over the product tokens ptrs of the stored token p: sub-segments,
\* synonyms of the synonym, insertion
addSynonyms(st, p, ptrs, i, log) ==
    IF i > Len(ptrs) THEN [heap |-> st.heap, dict |-> st.dict, log |-> log]
    ELSE LET t == ptrs[i]
             segments == segmentWords(st.dict, st.heap, st.heap[t].text, TRUE).segments
             h2 == [st.heap EXCEPT ![t].segments = @ \o segments,
                                   ![t].synonyms = @ \o <<p>> \o peersOf(ptrs, i)]
         IN  addSynonyms([heap |-> h2, dict |-> addToken(st.dict, h2, t)],
                         p, ptrs, i + 1, Append(log, LogEntry(h2, t)))

\* one iteration of the loop over the stored tokens, for the token p
expandToken(h, d, p) ==
    LET segments == segmentWords(d, h, h[p].text, TRUE).segments
        h1 == [h EXCEPT ![p].segments = @ \o segments]
        seed == [MkToken(<<>>, h[p].frequency, h[p].pos) EXCEPT !.distance = h[p].distance]
        hasSynonyms == \E k \in 1..Len(segments) : Len(synonymsOf(h1, segments[k].token)) > 0
        product == cartesian(h1, <<seed>>, h1[p].segments)
        ptrs == [k \in 1..Len(product) |-> Len(h) + k]
        h2 == [h1 EXCEPT ![p].synonyms = ptrs] \o product
    IN  IF hasSynonyms
        THEN addSynonyms([heap |-> h2, dict |-> d], p, ptrs, 1, <<>>)
        ELSE [heap |-> h1, dict |-> d, log |-> <<>>]

-----------------------------------------------------------------------------
(* The state machine *)

NoResult == [atoms |-> <<>>, called |-> FALSE, run |-> EmptyRun]

Init ==
    /\ pc = "parse"
    /\ heap = <<>>
    /\ dict = NewDictionary
    /\ logTotalFrequency = 0
    /\ expandIdx = 0
    /\ rangeLen = 0
    /\ linesRead = 0
    /\ addLog = <<>>
    /\ lineGroups = <<>>
    /\ query = [bytes |-> <<>>, searchMode |-> FALSE, asked |-> FALSE]
    /\ result = NoResult
    /\ splitIn = <<>>
    /\ splitOut = <<>>

\* LoadDictionary reads one more line: its tokens are built and inserted
LoadLine ==
    /\ pc = "parse"
    /\ linesRead < MaxLines
    /\ \E pieces \in DictLines :
          LET entries == validEntries(pieces)
              objs == lineTokens(Len(heap), entries)
              ptrs == [i \in 1..Len(entries) |-> Len(heap) + i]
              h2 == heap \o objs
          IN  /\ heap' = h2
              /\ dict' = addAll(dict, h2, ptrs)
              /\ addLog' = addLog \o [i \in 1..Len(ptrs) |-> LogEntry(h2, ptrs[i])]
              /\ lineGroups' = Append(lineGroups, ptrs)
    /\ linesRead' = linesRead + 1
    /\ UNCHANGED <<pc, logTotalFrequency, expandIdx, rangeLen, query, result,
                   splitIn, splitOut>>

\* the files are read: every stored token gets its distance
AssignDistances ==
    /\ pc = "parse"
    /\ logTotalFrequency' = Log2(dict.totalFrequency)
    /\ heap' = [p \in 1..Len(heap) |->
                   IF p \in Range(dict.tokens)
                   THEN [heap[p] EXCEPT !.distance =
                            Log2(dict.totalFrequency) - Log2(heap[p].frequency)]
                   ELSE heap[p]]
    /\ pc' = "expand"
    /\ expandIdx' = 1
    /\ rangeLen' = Len(dict.tokens)
    /\ UNCHANGED <<dict, linesRead, addLog, lineGroups, query, result, splitIn, splitOut>>

\* one iteration of the loop that sub-segments a stored token and inserts
\* the Cartesian product of its sub-segments' synonyms
ExpandToken ==
    /\ pc = "expand"
    /\ expandIdx <= rangeLen
    /\ LET r == expandToken(heap, dict, dict.tokens[expandIdx])
       IN  /\ heap' = r.heap
           /\ dict' = r.dict
           /\ addLog' = addLog \o r.log
    /\ expandIdx' = expandIdx + 1
    /\ UNCHANGED <<pc, logTotalFrequency, rangeLen, linesRead, lineGroups, query,
                   result, splitIn, splitOut>>

\* LoadDictionary returns
FinishLoad ==
    /\ pc = "expand"
    /\ expandIdx > rangeLen
    /\ pc' = "ready"
    /\ UNCHANGED <<heap, dict, logTotalFrequency, expandIdx, rangeLen, linesRead,
                   addLog, lineGroups, query, result, splitIn, splitOut>>

\* the bytes a = 97, 1 = 49 and the space
QueryBytes == {97, 49, 32}

\* Segment (searchMode FALSE) or InternalSegment on the loaded dictionary
Segment ==
    /\ pc = "ready"
    /\ ~query.asked
    /\ \E bytes \in SeqsUpTo(QueryBytes, MaxInputLen), searchMode \in BOOLEAN :
          /\ query' = [bytes |-> bytes, searchMode |-> searchMode, asked |-> TRUE]
          /\ result' = internalSegment(dict, heap, bytes, searchMode)
    /\ UNCHANGED <<pc, heap, dict, logTotalFrequency, expandIdx, rangeLen, linesRead,
                   addLog, lineGroups, splitIn, splitOut>>

\* the caller is done with the segments; the segmenter is idle again
Return ==
    /\ pc = "ready"
    /\ query.asked
    /\ query' = [bytes |-> <<>>, searchMode |-> FALSE, asked |-> FALSE]
    /\ result' = NoResult
    /\ UNCHANGED <<pc, heap, dict, logTotalFrequency, expandIdx, rangeLen, linesRead,
                   addLog, lineGroups, splitIn, splitOut>>

Next ==
    LoadLine \/ AssignDistances \/ ExpandToken \/ FinishLoad \/ Segment \/ Return

Spec == Init /\ [][Next]_vars

\* A, 1, space, !, the 2-byte letter U+00B5 (194 181), the 2-byte number
\* U+00B2 (194 178), the 3-byte scalars 228 x y, and what is left of them
\* when they are cut
SplitBytes == {65, 49, 32, 33, 194, 181, 178, 228}

InitSplit ==
    /\ pc = "split"
    /\ heap = <<>>
    /\ dict = NewDictionary
    /\ logTotalFrequency = 0
    /\ expandIdx = 0
    /\ rangeLen = 0
    /\ linesRead = 0
    /\ addLog = <<>>
    /\ lineGroups = <<>>
    /\ query = [bytes |-> <<>>, searchMode |-> FALSE, asked |-> FALSE]
    /\ result = NoResult
    /\ splitIn \in SeqsUpTo(SplitBytes, MaxTextLen)
    /\ splitOut = <<>>

\* splitTextToWords(splitIn)
Split ==
    /\ pc = "split"
    /\ splitOut' = splitTextToWords(splitIn)
    /\ pc' = "splitDone"
    /\ UNCHANGED <<heap, dict, logTotalFrequency, expandIdx, rangeLen, linesRead,
                   addLog, lineGroups, query, result, splitIn>>

NextSplit == Split

SpecSplit == InitSplit /\ [][NextSplit]_vars

-----------------------------------------------------------------------------
(* C7: the atoms of splitTextToWords *)

RECURSIVE Scalars(_, _)
\* the scalars of text from the 0-based offset on: offset, size and word type
Scalars(text, offset) ==
    IF offset >= Len(text) THEN <<>>
    ELSE LET d == DecodeRune(text, offset + 1)
         IN  <<[offset |-> offset, size |-> d.size, type |-> WordType(d)]>>
             \o Scalars(text, offset + d.size)

\* The atoms the claim describes: the scalars are cut into maximal runs of
\* letters (of at most 2 bytes), maximal runs of numbers (of at most 2 bytes)
\* and single other scalars; letter runs get A..Z lowercased; an atom that is
\* one space is left out.
RunAtoms(text) ==
    LET sc == Scalars(text, 0)
        starts == {i \in 1..Len(sc) :
                      i = 1 \/ sc[i].type # sc[i-1].type \/ sc[i].type = wordOther}
        nth(k) == CHOOSE i \in starts : Cardinality({j \in starts : j < i}) = k - 1
        lastOf(i) == CHOOSE j \in i..Len(sc) :
                        /\ \A k \in (i+1)..j : k \notin starts
                        /\ j = Len(sc) \/ (j + 1) \in starts
        lower(b) == IF b \in 65..90 THEN b + 32 ELSE b
        atom(i) == LET raw == SubSeq(text, sc[i].offset + 1,
                                     sc[lastOf(i)].offset + sc[lastOf(i)].size)
                   IN  IF sc[i].type = wordAlpha
                       THEN [b \in 1..Len(raw) |-> lower(raw[b])] ELSE raw
        all == [k \in 1..Cardinality(starts) |-> atom(nth(k))]
    IN  SelectSeq(all, LAMBDA w : w # <<32>>)

\* the scalars of an atom are all letters, all numbers, or a single other scalar
Unmixed(atom) ==
    LET sc == Scalars(atom, 0)
    IN  \/ \A i \in 1..Len(sc) : sc[i].type = wordAlpha
        \/ \A i \in 1..Len(sc) : sc[i].type = wordNumber
        \/ Len(sc) = 1

\* C7: splitTextToWords returns, in input order, exactly the maximal letter
\* runs (A..Z lowercased), the maximal number runs and every other scalar
\* alone, without the atoms that are a single space; no atom is empty and no
\* atom holds both a letter and a digit.
C7_SplitAtoms ==
    pc = "splitDone" =>
        /\ splitOut = RunAtoms(splitIn)
        /\ \A i \in 1..Len(splitOut) : splitOut[i] # <<>> /\ Unmixed(splitOut[i])

\* "A", U+00B5, "1", space: the letters form one atom with only the A
\* lowercased, the digit is split from it, the space is dropped
C7_Witness ==
    /\ pc = "splitDone"
    /\ splitIn = <<65, 194, 181, 49, 32>>
    /\ splitOut = << <<97, 194, 181>>, <<49>> >>

-----------------------------------------------------------------------------
(* Helpers of the properties *)

Stored == Range(dict.tokens)

RECURSIVE SumOver(_, _)
\* the sum of f[x] for x in the finite set S
SumOver(S, f) ==
    IF S = {} THEN 0
    ELSE LET x == CHOOSE x \in S : TRUE IN f[x] + SumOver(S \ {x}, f)

SetMin(S) == CHOOSE x \in S : \A y \in S : x <= y

SetMax(S) == CHOOSE x \in S : \A y \in S : x >= y

\* a call of segmentWords has been made for the query and has returned
Segmented == query.asked /\ result.called

Atoms == result.atoms

Run == result.run

-----------------------------------------------------------------------------
(* C1: the forward pass computes shortest paths *)

\* the distances of the lattice edges that cover atoms[s..e]: the stored token
\* with that text, or the pseudo token on one atom that no stored token matches
EdgeDistances(atoms, s, e) ==
    LET stored == {q \in Stored : heap[q].text = SubSeq(atoms, s, e)}
    IN  {heap[q].distance : q \in stored}
        \cup (IF s = e /\ stored = {} THEN {32 * 1000} ELSE {})

\* the blocks of atoms[1..i] when it is cut after the positions in cuts
BlocksOf(cuts, i) ==
    {<<s, e>> \in (1..i) \X (1..i) :
        /\ s <= e
        /\ s = 1 \/ (s - 1) \in cuts
        /\ e = i \/ e \in cuts
        /\ \A c \in cuts : ~(s <= c /\ c < e)}

\* the total distances of all coverings of atoms[1..i] by lattice edges
CoverDistances(atoms, i) ==
    {SumOver(BlocksOf(cuts, i),
             [b \in BlocksOf(cuts, i) |->
                 SetMin(EdgeDistances(atoms, b[1], b[2]))]) :
        cuts \in {c \in SUBSET (1..(i-1)) :
                     \A b \in BlocksOf(c, i) : EdgeDistances(atoms, b[1], b[2]) # {}}}

\* C1: in normal mode, after the forward pass jumpers[i].minDistance is the
\* minimum total distance over all coverings of atoms[0..i] by lattice edges,
\* and the segments found are a covering of the whole input of that distance.
C1_ShortestPath ==
    (pc = "ready" /\ Segmented /\ ~query.searchMode) =>
        /\ \A i \in 1..Len(Atoms) :
              Run.jumpers[i].minDistance = SetMin(CoverDistances(Atoms, i))
        /\ Len(Atoms) > 0 =>
              /\ Run.err = "none"
              /\ Flatten([k \in 1..Len(Run.outputSegments) |->
                             Run.outputSegments[k].token.text]) = Atoms
              /\ SumSeq([k \in 1..Len(Run.outputSegments) |->
                            Run.outputSegments[k].token.distance])
                     = SetMin(CoverDistances(Atoms, Len(Atoms)))

-----------------------------------------------------------------------------
(* C2: byte offsets and coverage *)

\* C2: the start and end of every segment Segment finds are byte offsets into
\* the input (the input's bytes between them are the token's atoms), and the
\* lengths end - start of the returned and of the dropped stop-word segments
\* add up to len(bytes).
C2_ByteCoverage ==
    (pc = "ready" /\ query.asked /\ ~query.searchMode) =>
        /\ SumSeq([k \in 1..Len(Run.outputSegments) |->
                      Run.outputSegments[k].end - Run.outputSegments[k].start])
               = Len(query.bytes)
        /\ \A k \in 1..Len(Run.outputSegments) :
              LET seg == Run.outputSegments[k]
              IN  splitTextToWords(SubSeq(query.bytes, seg.start + 1, seg.end))
                      = seg.token.text

-----------------------------------------------------------------------------
(* C3: distances after load *)

\* the totalFrequency when the distances were assigned: the frequencies of
\* the tokens the files stored
FileTotalFrequency ==
    SumSeq([i \in 1..rangeLen |-> heap[dict.tokens[i]].frequency])

\* C3 as stated: after load every stored token has
\* distance = log2(totalFrequency) - log2(frequency) with the dictionary's
\* totalFrequency as it is then, the sum of the stored frequencies.
C3_DistanceOfFinalTotal ==
    pc = "ready" =>
        /\ dict.totalFrequency =
               SumSeq([i \in 1..Len(dict.tokens) |-> heap[dict.tokens[i]].frequency])
        /\ \A q \in Stored :
              heap[q].distance = Log2(dict.totalFrequency) - Log2(heap[q].frequency)

\* C3 amended: after load every stored token has
\* distance = log2(T) - log2(frequency) where T is the totalFrequency at the
\* time the distances were assigned (the sum of the frequencies of the tokens
\* stored from the files); totalFrequency itself is the sum of the
\* frequencies of all stored tokens, product tokens included.
C3_DistanceOfFileTotal ==
    pc = "ready" =>
        /\ dict.totalFrequency =
               SumSeq([i \in 1..Len(dict.tokens) |-> heap[dict.tokens[i]].frequency])
        /\ \A q \in Stored :
              heap[q].distance = Log2(FileTotalFrequency) - Log2(heap[q].frequency)

\* the load stored a token of the Cartesian product
C3_Witness ==
    /\ pc = "ready"
    /\ Len(dict.tokens) > rangeLen
    /\ dict.totalFrequency > FileTotalFrequency

-----------------------------------------------------------------------------
(* C4: symmetry of the synonyms of one line *)

\* C4: after load, for any two tokens A and B built from the valid entries of
\* one dictionary line, B is among A's synonyms iff A is among B's.
C4_SynonymsSymmetric ==
    pc = "ready" =>
        \A g \in 1..Len(lineGroups) :
            \A a \in Range(lineGroups[g]), b \in Range(lineGroups[g]) :
                a # b => (b \in Range(heap[a].synonyms) <=> a \in Range(heap[b].synonyms))

-----------------------------------------------------------------------------
(* C5: first writer wins *)

LogKeys == {addLog[i].key : i \in 1..Len(addLog)}

\* the first addToken call made with the key
FirstCall(key) == addLog[SetMin({i \in 1..Len(addLog) : addLog[i].key = key})]

\* C5: whatever addToken calls LoadDictionary has made, each key is stored
\* once, with the frequency and pos of the first call that had this key;
\* numTokens, totalFrequency and maxTokenLength count the first calls only.
C5_FirstWriterWins ==
    /\ {Key(heap[q].text) : q \in Stored} = LogKeys
    /\ NumTokens(dict) = Cardinality(LogKeys)
    /\ \A q \in Stored :
          /\ heap[q].frequency = FirstCall(Key(heap[q].text)).frequency
          /\ heap[q].pos = FirstCall(Key(heap[q].text)).pos
    /\ dict.totalFrequency = SumOver(LogKeys, [k \in LogKeys |-> FirstCall(k).frequency])
    /\ dict.maxTokenLength = SetMax({0} \cup {FirstCall(k).atoms : k \in LogKeys})

\* a later line defined a stored token again, with another pos and frequency
C5_Witness ==
    /\ pc = "ready"
    /\ \E i \in 1..Len(addLog), j \in 1..Len(addLog) :
          /\ i < j
          /\ addLog[i].key = addLog[j].key
          /\ addLog[i].pos # addLog[j].pos
          /\ addLog[i].frequency # addLog[j].frequency

-----------------------------------------------------------------------------
(* C6: stop words *)

\* the segments of the best path that the filter dropped
DroppedStopWords ==
    {k \in 1..Len(Run.outputSegments) : Run.outputSegments[k].token.pos = "__STOP__"}

\* C6: no returned segment has a token of pos "__STOP__"; the returned
\* segments are the segments of the best path without its stop-word tokens, so
\* the span of a dropped stop word is covered by no returned segment; and the
\* distance of the path found counts the stop-word tokens on it.
C6_StopWordsDropped ==
    (pc = "ready" /\ Segmented /\ Run.err = "none") =>
        /\ \A k \in 1..Len(Run.segments) : Run.segments[k].token.pos # "__STOP__"
        /\ Run.segments =
               SelectSeq(Run.outputSegments, LAMBDA seg : seg.token.pos # "__STOP__")
        /\ \A k \in DroppedStopWords : \A r \in 1..Len(Run.segments) :
              \/ Run.segments[r].end <= Run.outputSegments[k].start
              \/ Run.outputSegments[k].end <= Run.segments[r].start
        /\ Len(Run.jumpers) > 0 =>
              Run.jumpers[Len(Run.jumpers)].minDistance =
                  SumSeq([k \in 1..Len(Run.outputSegments) |->
                             Run.outputSegments[k].token.distance])

\* a stop word on the best path was dropped from between or beside returned segments
C6_Witness ==
    /\ pc = "ready" /\ Segmented /\ Run.err = "none"
    /\ DroppedStopWords # {}
    /\ Run.segments # <<>>
    /\ Len(Run.segments) + Cardinality(DroppedStopWords) = Len(Run.outputSegments)

-----------------------------------------------------------------------------
(* C8: the cached sub-segmentation *)

\* C8: after load, the segments of every stored token T of more than one atom
\* are what search-mode segmentation of T's text finds in the dictionary as it
\* is then, and none of them is T itself.
C8_SegmentsUpToDate ==
    pc = "ready" =>
        \A q \in Stored :
            Len(heap[q].text) > 1 =>
                /\ heap[q].segments = segmentWords(dict, heap, heap[q].text, TRUE).segments
                /\ \A k \in 1..Len(heap[q].segments) : heap[q].segments[k].token.ptr # q

-----------------------------------------------------------------------------
(* C9: the backward scans *)

\* C9: whenever segmentWords runs its loops (any dictionary, any atoms, search
\* mode with at least 2 atoms), after the forward pass every jumper holds a
\* token of at least one atom that ends at the jumper's position, the backward
\* scans end without a nil token and without an index below -1; with an empty
\* dictionary the result is one pseudo token of pos "x" per atom.
C9_BackwardScanSafe ==
    (pc = "ready" /\ Segmented /\ ~(query.searchMode /\ Len(Atoms) = 1)) =>
        /\ Len(Run.jumpers) = Len(Atoms)
        /\ \A i \in 1..Len(Atoms) :
              LET token == Run.jumpers[i].token
              IN  /\ token.ptr # -1
                  /\ Len(token.text) >= 1
                  /\ Len(token.text) <= i
                  /\ token.text = SubSeq(Atoms, i - Len(token.text) + 1, i)
        /\ Run.err = "none"
        /\ dict.tokens = <<>> =>
              /\ Len(Run.segments) = Len(Atoms)
              /\ \A i \in 1..Len(Atoms) :
                    /\ Run.segments[i].token.pos = "x"
                    /\ Run.segments[i].token.text = <<Atoms[i]>>

\* a search-mode run over at least 2 atoms in which one position was reached
\* only by the pseudo token and another by a stored token of several atoms
C9_Witness ==
    /\ pc = "ready" /\ Segmented /\ query.searchMode
    /\ Len(Atoms) >= 2
    /\ \E i \in 1..Len(Atoms) : Run.jumpers[i].token.ptr = 0
    /\ \E i \in 1..Len(Atoms) :
          Run.jumpers[i].token.ptr > 0 /\ Len(Run.jumpers[i].token.text) > 1

-----------------------------------------------------------------------------
(* C10: ties in the relax rule *)

\* the candidates relaxed at a location whose distance is the least relaxed there
Best(location) ==
    LET log == Run.relaxed[location]
    IN  {k \in 1..Len(log) :
            \A j \in 1..Len(log) : log[k].newDistance <= log[j].newDistance}

\* C10 as stated: when candidates reach the same position with equal (least)
\* total distance, the jumper holds the one relaxed last.
C10_TieGoesToLast ==
    (pc = "ready" /\ Segmented) =>
        \A i \in 1..Len(Run.jumpers) :
            Cardinality(Best(i)) >= 2 =>
                Run.jumpers[i].token = Run.relaxed[i][SetMax(Best(i))].token

\* the candidates relaxed at a location after the last one of distance 0
AfterZero(location) ==
    LET log == Run.relaxed[location]
        zeros == {k \in 1..Len(log) : log[k].newDistance = 0}
    IN  IF zeros = {} THEN 1..Len(log) ELSE (SetMax(zeros) + 1)..Len(log)

\* C10 amended: among candidates that reach a position with equal total
\* distance the jumper keeps the one relaxed first (the comparison is
\* strict); only a jumper whose minDistance is 0 is overwritten by the next
\* candidate whatever its distance.  So the jumper ends with the first of the
\* least-distance candidates relaxed after the last candidate of distance 0,
\* or with that candidate of distance 0 when none followed it.
C10_TieKeepsFirst ==
    (pc = "ready" /\ Segmented) =>
        \A i \in 1..Len(Run.jumpers) :
            LET log == Run.relaxed[i]
                rest == AfterZero(i)
                least == {k \in rest : \A j \in rest : log[k].newDistance <= log[j].newDistance}
                held == IF rest = {} THEN Len(log) ELSE SetMin(least)
            IN  log # <<>> =>
                    /\ Run.jumpers[i].token = log[held].token
                    /\ Run.jumpers[i].minDistance = log[held].newDistance

\* two different tokens reached a position with the same distance, not 0,
\* the least relaxed there
C10_Witness ==
    /\ pc = "ready" /\ Segmented
    /\ \E i \in 1..Len(Run.jumpers) :
          /\ Cardinality(Best(i)) >= 2
          /\ Run.relaxed[i][SetMin(Best(i))].newDistance > 0
          /\ Run.relaxed[i][SetMin(Best(i))].token # Run.relaxed[i][SetMax(Best(i))].token

=============================================================================
